---- MODULE Spec2Model ----
(***************************************************************************)
(* Model of the trivia game front end.                                     *)
(*                                                                         *)
(*   App          (src/unnamed/part_000)              start / reset        *)
(*   StandardGame (src/unnamed/part_001)              speech queue         *)
(*   LiveGame     (src/components/LiveGame.tsx 1-220) live voice session   *)
(*   geminiService (src/components/LiveGame.tsx 255-424)                   *)
(*                                                                         *)
(* The components are checked one at a time: SpecLive is a mounted LiveGame *)
(* from its init to its teardown, SpecPlay the playback pipeline of a      *)
(* LiveGame whose session is open, SpecStd a mounted StandardGame with its *)
(* speech queue (FairSpecStd adds the progress of its requests, decodes    *)
(* and playback), SpecApp the App with generateTriviaQuestions.  All run   *)
(* over the same variables; the variables of the components a              *)
(* specification does not run keep their initial values.                   *)
(***************************************************************************)
EXTENDS Integers, Sequences, FiniteSets

(* ------------------------------ bounds --------------------------------- *)
\* audio messages received by one live session
MaxMsgs == 2
\* longest decoded segment, in clock units
MaxDur == 2
\* last value of the output context's clock
MaxTime == 2
\* microphone frames delivered to onaudioprocess
MaxFrames == 2
\* questions of a standard game
MaxQ == 2
\* tokens of a generation response's text
MaxText == 3
\* grounding chunks of a generation response
MaxChunks == 2

VARIABLES
    \* App (part_000)
    mode,               \* gameState.mode
    \* LiveGame (LiveGame.tsx)
    isMounted,          \* closure flag of the effect
    micRequest,         \* getUserMedia: "pending" | "granted" | "denied"
    streamRef,          \* "null" | "live" | "stopped"
    sessionRef,         \* "null" | "set"  (holds sessionPromise)
    sessionPromise,     \* "none" | "pending" | "resolved" | "rejected"
    session,            \* "none" | "open" | "closedByPeer" | "closedByClient"
    closePending,       \* cleanup's then(s => s.close()) waits for the promise
    processorRef,       \* "null" | "connected" | "disconnected"
    sourceRef,          \* "null" | "connected" | "disconnected"
    inputCtx,           \* "running" | "closed"
    outputCtx,          \* "running" | "closed"
    connected,
    isBotSpeaking,
    error,
    isMicOn,
    nextStartTimeRef,   \* the scheduling cursor
    currentTime,        \* outputCtx.currentTime
    msgs,               \* audio messages in arrival order
    audioSourcesRef,    \* indices into msgs: the sources in the set
    epoch,              \* interruption steps run so far
    frames,             \* microphone frames delivered, in order
    \* StandardGame (part_001)
    stdMounted,
    audioCtx,           \* audioCtxRef.current.state: "none" | "running" | "closed"
    audioQueue,         \* the utterances chained on audioQueueRef, in speak order
    currentQIdx,
    showAnswer,
    score,
    timer,              \* the question index the pending 500 ms timer holds, or -1
    \* App (part_000), continued
    questions,          \* gameState.questions
    loading,
    sources,
    gameScore,          \* gameState.score
    currentQuestionIndex,
    pendingMode,        \* the mode the startGame call in flight was given, or "none"
    response,           \* <<r>>: what generateContent settled with; <<>>: nothing
    result,             \* <<r>>: what generateTriviaQuestions settled with
    personality,        \* gameState.personality
    voiceName           \* the voice the mounted game asked the service for, or "none"

liveVars == <<isMounted, micRequest, streamRef, sessionRef, sessionPromise, session,
              closePending, processorRef, sourceRef, inputCtx, outputCtx, connected,
              isBotSpeaking, error, isMicOn, nextStartTimeRef, currentTime, msgs,
              audioSourcesRef, epoch, frames>>

stdVars == <<stdMounted, audioCtx, audioQueue, currentQIdx, showAnswer, score, timer>>

appVars == <<questions, loading, sources, gameScore, currentQuestionIndex, pendingMode,
             response, result, personality, voiceName>>

\* what an App step leaves alone
notApp == <<liveVars, stdVars>>

\* what a LiveGame step leaves alone: the other components' variables
notLive == <<stdVars, appVars>>

\* what a StandardGame step leaves alone
notStd == <<liveVars, appVars>>

vars == <<mode, liveVars, stdVars, appVars>>

Max(a, b) == IF a >= b THEN a ELSE b

ConnectionInterrupted == "Connection interrupted."
InitFailed == "Failed to access microphone or connect."

(* ============================ LiveGame ================================= *)

\* A message's inlineData decodes to a buffer of dur clock units (dur = 0: the
\* message carries no audio); intr is serverContent.interrupted.
Message(d, i) ==
    [dur |-> d, intr |-> i, st |-> IF d > 0 THEN "decoding" ELSE "nodata",
     start |-> 0, at |-> 0, rEpoch |-> epoch, sEpoch |-> 0]

\* started sources, whatever became of them
Started == {i \in 1..Len(msgs) : msgs[i].st \in {"scheduled", "stopped", "done"}}

\* the effect runs once, so the handlers it creates see the isMicOn of the first
\* render for ever
CapturedIsMicOn == TRUE

StopTracks(s) == IF s = "live" THEN "stopped" ELSE s

Disconnect(n) == IF n = "connected" THEN "disconnected" ELSE n

\* the hardcoded fallback question of generateTriviaQuestions
FallbackQuestions == <<0>>

\* the App between two games, or with a game on: no generation call in flight
AppQuiet ==
    /\ loading = FALSE
    /\ sources = <<>>
    /\ gameScore = 0
    /\ currentQuestionIndex = 0
    /\ pendingMode = "none"
    /\ response = <<>>
    /\ result = <<>>
    /\ personality = "ENTHUSIASTIC_HOST"
    /\ voiceName = "none"

\* no StandardGame is mounted
StdIdle ==
    /\ stdMounted = FALSE
    /\ audioCtx = "none"
    /\ audioQueue = <<>>
    /\ currentQIdx = 0
    /\ showAnswer = FALSE
    /\ score = 0
    /\ timer = -1

\* the state after mounting: init() has run up to its first await
InitLive ==
    /\ mode = "PLAY_LIVE"
    /\ questions = FallbackQuestions
    /\ AppQuiet
    /\ StdIdle
    /\ isMounted = TRUE
    /\ micRequest = "pending"
    /\ streamRef = "null"
    /\ sessionRef = "null"
    /\ sessionPromise = "none"
    /\ session = "none"
    /\ closePending = FALSE
    /\ processorRef = "null"
    /\ sourceRef = "null"
    /\ inputCtx = "running"
    /\ outputCtx = "running"
    /\ connected = FALSE
    /\ isBotSpeaking = FALSE
    /\ error = "none"
    /\ isMicOn = TRUE
    /\ nextStartTimeRef = 0
    /\ currentTime = 0
    /\ msgs = <<>>
    /\ audioSourcesRef = {}
    /\ epoch = 0
    /\ frames = <<>>

\* getUserMedia resolves: init goes on to connectToLiveSession and stores the
\* pending promise, mounted or not
MicGranted ==
    /\ micRequest = "pending"
    /\ micRequest' = "granted"
    /\ streamRef' = "live"
    /\ sessionPromise' = "pending"
    /\ sessionRef' = "set"
    /\ UNCHANGED <<mode, isMounted, session, closePending, processorRef, sourceRef,
                   inputCtx, outputCtx, connected, isBotSpeaking, error, isMicOn,
                   nextStartTimeRef, currentTime, msgs, audioSourcesRef, epoch, frames>>
    /\ UNCHANGED notLive

\* getUserMedia rejects: the catch of init
MicDenied ==
    /\ micRequest = "pending"
    /\ micRequest' = "denied"
    /\ error' = IF isMounted THEN InitFailed ELSE error
    /\ UNCHANGED <<mode, isMounted, streamRef, sessionRef, sessionPromise, session,
                   closePending, processorRef, sourceRef, inputCtx, outputCtx, connected,
                   isBotSpeaking, isMicOn, nextStartTimeRef, currentTime, msgs,
                   audioSourcesRef, epoch, frames>>
    /\ UNCHANGED notLive

\* the socket opens: onOpen runs, then the promise resolves and the callbacks
\* waiting on it run (cleanup's close, when teardown came first)
SessionOpen ==
    /\ sessionPromise = "pending"
    /\ sessionPromise' = "resolved"
    /\ session' = IF closePending THEN "closedByClient" ELSE "open"
    /\ closePending' = FALSE
    /\ IF isMounted
       THEN /\ connected' = TRUE
            /\ sourceRef' = "connected"
            /\ processorRef' = "connected"
       ELSE UNCHANGED <<connected, sourceRef, processorRef>>
    /\ UNCHANGED <<mode, isMounted, micRequest, streamRef, sessionRef, inputCtx,
                   outputCtx, isBotSpeaking, error, isMicOn, nextStartTimeRef,
                   currentTime, msgs, audioSourcesRef, epoch, frames>>
    /\ UNCHANGED notLive

\* the connection attempt fails: the promise rejects and nothing waits on it
ConnectFailed ==
    /\ sessionPromise = "pending"
    /\ sessionPromise' = "rejected"
    /\ closePending' = FALSE
    /\ UNCHANGED <<mode, isMounted, micRequest, streamRef, sessionRef, session,
                   processorRef, sourceRef, inputCtx, outputCtx, connected, isBotSpeaking,
                   error, isMicOn, nextStartTimeRef, currentTime, msgs, audioSourcesRef,
                   epoch, frames>>
    /\ UNCHANGED notLive

\* onaudioprocess: one frame, one sendRealtimeInput, unless the handler's isMicOn
\* is false
AudioProcess ==
    /\ processorRef = "connected"
    /\ Len(frames) < MaxFrames
    /\ frames' = Append(frames, [mic |-> isMicOn, sent |-> CapturedIsMicOn,
                                 live |-> isMounted])
    /\ UNCHANGED <<mode, isMounted, micRequest, streamRef, sessionRef, sessionPromise,
                   session, closePending, processorRef, sourceRef, inputCtx, outputCtx,
                   connected, isBotSpeaking, error, isMicOn, nextStartTimeRef,
                   currentTime, msgs, audioSourcesRef, epoch>>
    /\ UNCHANGED notLive

toggleMic ==
    /\ mode = "PLAY_LIVE"
    /\ isMicOn' = ~isMicOn
    /\ UNCHANGED <<mode, isMounted, micRequest, streamRef, sessionRef, sessionPromise,
                   session, closePending, processorRef, sourceRef, inputCtx, outputCtx,
                   connected, isBotSpeaking, error, nextStartTimeRef, currentTime, msgs,
                   audioSourcesRef, epoch, frames>>
    /\ UNCHANGED notLive

\* the output context's clock advances
Tick ==
    /\ outputCtx = "running"
    /\ currentTime < MaxTime
    /\ currentTime' = currentTime + 1
    /\ UNCHANGED <<mode, isMounted, micRequest, streamRef, sessionRef, sessionPromise,
                   session, closePending, processorRef, sourceRef, inputCtx, outputCtx,
                   connected, isBotSpeaking, error, isMicOn, nextStartTimeRef, msgs,
                   audioSourcesRef, epoch, frames>>
    /\ UNCHANGED notLive

\* the interruption branch of onMessage, run on the sources ss and messages ms
InterruptedMsgs(ms, ss) ==
    [i \in 1..Len(ms) |-> IF i \in ss THEN [ms[i] EXCEPT !.st = "stopped"] ELSE ms[i]]

\* Interrupt without the reset of the cursor
InterruptKeepCursor(ms, ss) ==
    /\ msgs' = InterruptedMsgs(ms, ss)
    /\ audioSourcesRef' = {}
    /\ nextStartTimeRef' = nextStartTimeRef
    /\ isBotSpeaking' = FALSE
    /\ epoch' = epoch + 1

Interrupt(ms, ss) ==
    /\ msgs' = InterruptedMsgs(ms, ss)
    /\ audioSourcesRef' = {}
    /\ nextStartTimeRef' = 0
    /\ isBotSpeaking' = FALSE
    /\ epoch' = epoch + 1

\* onMessage up to its await (a message with audio), or whole (one without)
OnMessage(d, i) ==
    /\ session = "open"
    /\ isMounted
    /\ Len(msgs) < MaxMsgs
    /\ IF d > 0
       THEN /\ isBotSpeaking' = TRUE
            /\ nextStartTimeRef' = Max(nextStartTimeRef, currentTime)
            /\ msgs' = Append(msgs, Message(d, i))
            /\ UNCHANGED <<audioSourcesRef, epoch>>
       ELSE Interrupt(Append(msgs, Message(d, i)), audioSourcesRef)
    /\ UNCHANGED <<mode, isMounted, micRequest, streamRef, sessionRef, sessionPromise,
                   session, closePending, processorRef, sourceRef, inputCtx, outputCtx,
                   connected, error, isMicOn, currentTime, frames>>
    /\ UNCHANGED notLive

\* message i as source.start leaves it
Scheduled(i) ==
    [msgs[i] EXCEPT !.st = "scheduled", !.start = nextStartTimeRef, !.at = currentTime,
                    !.sEpoch = epoch]

\* decodeAudioData of message i may resolve: decodes are suspension points of
\* their own, and any one in flight may be the next to complete
DecodeResolves(i) == msgs[i].st = "decoding"

\* the rest of onMessage, once message i's decodeAudioData has resolved
DecodeDone(i) ==
    /\ i \in 1..Len(msgs)
    /\ DecodeResolves(i)
    /\ IF msgs[i].intr
       THEN Interrupt([msgs EXCEPT ![i] = Scheduled(i)], audioSourcesRef \cup {i})
       ELSE /\ msgs' = [msgs EXCEPT ![i] = Scheduled(i)]
            /\ nextStartTimeRef' = nextStartTimeRef + msgs[i].dur
            /\ audioSourcesRef' = audioSourcesRef \cup {i}
            /\ UNCHANGED <<isBotSpeaking, epoch>>
    /\ UNCHANGED <<mode, isMounted, micRequest, streamRef, sessionRef, sessionPromise,
                   session, closePending, processorRef, sourceRef, inputCtx, outputCtx,
                   connected, error, isMicOn, currentTime, frames>>
    /\ UNCHANGED notLive

\* when source i has played to its end: it starts at its start time, or at once
\* when that time is already past
PlaybackEnd(i) == Max(msgs[i].start, msgs[i].at) + msgs[i].dur

\* the 'ended' listener of source i (a stopped source fires it too)
Ended(i) ==
    /\ i \in 1..Len(msgs)
    /\ \/ msgs[i].st = "stopped"
       \/ msgs[i].st = "scheduled" /\ currentTime >= PlaybackEnd(i)
    /\ msgs' = [msgs EXCEPT ![i].st = "done"]
    /\ audioSourcesRef' = audioSourcesRef \ {i}
    /\ isBotSpeaking' = IF audioSourcesRef \ {i} = {} THEN FALSE ELSE isBotSpeaking
    /\ UNCHANGED <<mode, isMounted, micRequest, streamRef, sessionRef, sessionPromise,
                   session, closePending, processorRef, sourceRef, inputCtx, outputCtx,
                   connected, error, isMicOn, nextStartTimeRef, currentTime, epoch,
                   frames>>
    /\ UNCHANGED notLive

\* App.resetGame
resetGame == mode' = "SETUP"

\* the effect's cleanup; s is the session as the cleanup finds it
Cleanup(s) ==
    /\ isMounted' = FALSE
    /\ streamRef' = StopTracks(streamRef)
    /\ processorRef' = Disconnect(processorRef)
    /\ sourceRef' = Disconnect(sourceRef)
    /\ inputCtx' = "closed"
    /\ outputCtx' = "closed"
    /\ session' = IF sessionRef = "set" /\ sessionPromise = "resolved" /\ s = "open"
                  THEN "closedByClient" ELSE s
    /\ closePending' = (sessionRef = "set" /\ sessionPromise = "pending")

\* onError
OnError ==
    /\ session = "open"
    /\ error' = IF isMounted THEN ConnectionInterrupted ELSE error
    /\ UNCHANGED <<mode, isMounted, micRequest, streamRef, sessionRef, sessionPromise,
                   session, closePending, processorRef, sourceRef, inputCtx, outputCtx,
                   connected, isBotSpeaking, isMicOn, nextStartTimeRef, currentTime,
                   msgs, audioSourcesRef, epoch, frames>>
    /\ UNCHANGED notLive

\* OnClose without the call of onEndGame
OnCloseNoEnd ==
    /\ session = "open"
    /\ session' = "closedByPeer"
    /\ UNCHANGED <<mode, isMounted, micRequest, streamRef, sessionRef, sessionPromise,
                   closePending, processorRef, sourceRef, inputCtx, outputCtx, connected,
                   isBotSpeaking, error, isMicOn, nextStartTimeRef, currentTime, msgs,
                   audioSourcesRef, epoch, frames>>
    /\ UNCHANGED notLive

\* onClose: the peer closes the socket; a mounted component ends the game, which
\* unmounts it
OnClose ==
    /\ session = "open"
    /\ IF isMounted
       THEN resetGame /\ Cleanup("closedByPeer")
       ELSE /\ session' = "closedByPeer"
            /\ UNCHANGED <<mode, isMounted, streamRef, processorRef, sourceRef,
                           inputCtx, outputCtx, closePending>>
    /\ UNCHANGED <<micRequest, sessionRef, sessionPromise, connected, isBotSpeaking,
                   error, isMicOn, nextStartTimeRef, currentTime, msgs,
                   audioSourcesRef, epoch, frames>>
    /\ UNCHANGED notLive

\* "End Session" or "EXIT GAME": resetGame, and the unmount it causes
EndSession ==
    /\ mode = "PLAY_LIVE"
    /\ resetGame
    /\ Cleanup(session)
    /\ UNCHANGED <<micRequest, sessionRef, sessionPromise, connected, isBotSpeaking,
                   error, isMicOn, nextStartTimeRef, currentTime, msgs,
                   audioSourcesRef, epoch, frames>>
    /\ UNCHANGED notLive

\* a LiveGame whose session is open: init has run through and onOpen has fired
InitPlay ==
    /\ mode = "PLAY_LIVE"
    /\ questions = FallbackQuestions
    /\ AppQuiet
    /\ StdIdle
    /\ isMounted = TRUE
    /\ micRequest = "granted"
    /\ streamRef = "live"
    /\ sessionRef = "set"
    /\ sessionPromise = "resolved"
    /\ session = "open"
    /\ closePending = FALSE
    /\ processorRef = "connected"
    /\ sourceRef = "connected"
    /\ inputCtx = "running"
    /\ outputCtx = "running"
    /\ connected = TRUE
    /\ isBotSpeaking = FALSE
    /\ error = "none"
    /\ isMicOn = TRUE
    /\ nextStartTimeRef = 0
    /\ currentTime = 0
    /\ msgs = <<>>
    /\ audioSourcesRef = {}
    /\ epoch = 0
    /\ frames = <<>>

\* the session's life: microphone, connection, frames, errors, teardown
NextLive ==
    \/ MicGranted
    \/ MicDenied
    \/ SessionOpen
    \/ ConnectFailed
    \/ AudioProcess
    \/ toggleMic
    \/ OnError
    \/ OnClose
    \/ EndSession

\* the playback pipeline of an open session
NextPlay ==
    \/ Tick
    \/ \E d \in 0..MaxDur, i \in BOOLEAN : (d > 0 \/ i) /\ OnMessage(d, i)
    \/ \E i \in 1..MaxMsgs : DecodeDone(i)
    \/ \E i \in 1..MaxMsgs : Ended(i)
    \/ OnClose
    \/ EndSession

SpecLive == InitLive /\ [][NextLive]_vars

SpecPlay == InitPlay /\ [][NextPlay]_vars

(* =========================== StandardGame ============================== *)

\* utterances one game can enqueue: intro, game over, a question and an answer each
MaxUtt == 2 * MaxQ + 2

\* no LiveGame is mounted
LiveIdle ==
    /\ isMounted = FALSE
    /\ micRequest = "none"
    /\ streamRef = "null"
    /\ sessionRef = "null"
    /\ sessionPromise = "none"
    /\ session = "none"
    /\ closePending = FALSE
    /\ processorRef = "null"
    /\ sourceRef = "null"
    /\ inputCtx = "none"
    /\ outputCtx = "none"
    /\ connected = FALSE
    /\ isBotSpeaking = FALSE
    /\ error = "none"
    /\ isMicOn = TRUE
    /\ nextStartTimeRef = 0
    /\ currentTime = 0
    /\ msgs = <<>>
    /\ audioSourcesRef = {}
    /\ epoch = 0
    /\ frames = <<>>

\* the questions list [1, .., n]
QuestionList(n) == [i \in 1..n |-> i]

\* gameState.questions[i] exists (i counts from 0, as in the source)
HasQuestion(i) == i >= 0 /\ i < Len(questions)

\* an utterance as speak appends it: its then-callback waits on the chain
Utterance(kind, arg) ==
    [kind |-> kind, arg |-> arg, st |-> "queued", ctxAtStart |-> ""]

\* speak(text): chain the utterance on audioQueueRef
speak(kind, arg) == Append(audioQueue, Utterance(kind, arg))

\* the state after mounting: the context is created, the intro is enqueued and
\* the timer of question 1 is running
InitStd ==
    /\ mode = "PLAY_STANDARD"
    /\ questions \in {QuestionList(n) : n \in 1..MaxQ} \cup {FallbackQuestions}
    /\ AppQuiet
    /\ LiveIdle
    /\ stdMounted = TRUE
    /\ audioCtx = "running"
    /\ audioQueue = <<Utterance("intro", 0)>>
    /\ currentQIdx = 0
    /\ showAnswer = FALSE
    /\ score = 0
    /\ timer = 0

\* speak without the chain: the utterance starts its cycle at once
ChainReadyAtOnce(k) == TRUE

\* the promise utterance k's callback is chained on has resolved
ChainReady(k) == IF k = 1 THEN TRUE ELSE audioQueue[k - 1].st = "done"

\* utterance k's then-callback runs: skip on a closed context, else
\* playTextToSpeech up to its request
ChainStep(k) ==
    /\ k \in 1..Len(audioQueue)
    /\ audioQueue[k].st = "queued"
    /\ ChainReady(k)
    /\ audioQueue' = IF audioCtx = "closed"
                     THEN [audioQueue EXCEPT ![k].st = "done"]
                     ELSE [audioQueue EXCEPT ![k].st = "request"]
    /\ UNCHANGED <<mode, stdMounted, audioCtx, currentQIdx, showAnswer, score, timer>>
    /\ UNCHANGED notStd

\* the text-to-speech request of utterance k settles: it fails, answers without
\* audio, or answers with audio
TtsResponse(k, r) ==
    /\ k \in 1..Len(audioQueue)
    /\ audioQueue[k].st = "request"
    /\ audioQueue' =
          IF r = "error" \/ r = "noaudio" \/ audioCtx = "closed"
          THEN [audioQueue EXCEPT ![k].st = "done"]
          ELSE [audioQueue EXCEPT ![k].st = "decode"]
    /\ UNCHANGED <<mode, stdMounted, audioCtx, currentQIdx, showAnswer, score, timer>>
    /\ UNCHANGED notStd

\* the decode of utterance k settles: it throws, or the source is started
TtsDecoded(k, ok) ==
    /\ k \in 1..Len(audioQueue)
    /\ audioQueue[k].st = "decode"
    /\ audioQueue' =
          IF ok
          THEN [audioQueue EXCEPT ![k].st = "playing", ![k].ctxAtStart = audioCtx]
          ELSE [audioQueue EXCEPT ![k].st = "done"]
    /\ UNCHANGED <<mode, stdMounted, audioCtx, currentQIdx, showAnswer, score, timer>>
    /\ UNCHANGED notStd

\* source.onended of utterance k, on a running context
TtsEnded(k) ==
    /\ k \in 1..Len(audioQueue)
    /\ audioQueue[k].st = "playing"
    /\ audioCtx = "running"
    /\ audioQueue' = [audioQueue EXCEPT ![k].st = "done"]
    /\ UNCHANGED <<mode, stdMounted, audioCtx, currentQIdx, showAnswer, score, timer>>
    /\ UNCHANGED notStd

\* source.onended of utterance k on a closed context: the platform may deliver it
\* or never do so
TtsEndedClosed(k) ==
    /\ k \in 1..Len(audioQueue)
    /\ audioQueue[k].st = "playing"
    /\ audioCtx = "closed"
    /\ audioQueue' = [audioQueue EXCEPT ![k].st = "done"]
    /\ UNCHANGED <<mode, stdMounted, audioCtx, currentQIdx, showAnswer, score, timer>>
    /\ UNCHANGED notStd

\* the 500 ms timer of the question effect fires
TimerFire ==
    /\ timer >= 0
    /\ audioQueue' = speak("question", timer)
    /\ timer' = -1
    /\ UNCHANGED <<mode, stdMounted, audioCtx, currentQIdx, showAnswer, score>>
    /\ UNCHANGED notStd

handleReveal ==
    /\ stdMounted
    /\ ~showAnswer
    /\ HasQuestion(currentQIdx)
    /\ showAnswer' = TRUE
    /\ audioQueue' = speak("answer", currentQIdx)
    /\ UNCHANGED <<mode, stdMounted, audioCtx, currentQIdx, score, timer>>
    /\ UNCHANGED notStd

\* the cleanups of the two effects
StdCleanup ==
    /\ stdMounted' = FALSE
    /\ audioCtx' = "closed"
    /\ timer' = -1

\* handleNext, with the score its render saw; the question effect follows a change
\* of currentQIdx and restarts the timer
handleNext ==
    IF currentQIdx < Len(questions) - 1
    THEN /\ currentQIdx' = currentQIdx + 1
         /\ showAnswer' = FALSE
         /\ timer' = IF HasQuestion(currentQIdx + 1) THEN currentQIdx + 1 ELSE -1
         /\ UNCHANGED <<mode, stdMounted, audioCtx, audioQueue>>
    ELSE /\ audioQueue' = speak("gameover", score)
         /\ resetGame
         /\ StdCleanup
         /\ UNCHANGED <<currentQIdx, showAnswer>>

\* "I Got It Right"
GotItRight ==
    /\ stdMounted
    /\ showAnswer
    /\ score' = score + 1
    /\ handleNext
    /\ UNCHANGED notStd

\* "Missed It"
MissedIt ==
    /\ stdMounted
    /\ showAnswer
    /\ handleNext
    /\ UNCHANGED score
    /\ UNCHANGED notStd

\* "EXIT GAME": resetGame, and the unmount it causes
ExitGame ==
    /\ mode = "PLAY_STANDARD"
    /\ resetGame
    /\ StdCleanup
    /\ UNCHANGED <<audioQueue, currentQIdx, showAnswer, score>>
    /\ UNCHANGED notStd

NextStd ==
    \/ \E k \in 1..MaxUtt : ChainStep(k)
    \/ \E k \in 1..MaxUtt, r \in {"error", "noaudio", "audio"} : TtsResponse(k, r)
    \/ \E k \in 1..MaxUtt, ok \in BOOLEAN : TtsDecoded(k, ok)
    \/ \E k \in 1..MaxUtt : TtsEnded(k)
    \/ \E k \in 1..MaxUtt : TtsEndedClosed(k)
    \/ TimerFire
    \/ handleReveal
    \/ GotItRight
    \/ MissedIt
    \/ ExitGame

SpecStd == InitStd /\ [][NextStd]_vars

\* the requests, the decodes and the playback of a running context all come to
\* an end; nothing makes the user press a button or a closed context fire 'ended'
FairStd ==
    \A k \in 1..MaxUtt :
        /\ WF_vars(ChainStep(k))
        /\ WF_vars(\E r \in {"error", "noaudio", "audio"} : TtsResponse(k, r))
        /\ WF_vars(\E ok \in BOOLEAN : TtsDecoded(k, ok))
        /\ WF_vars(TtsEnded(k))

FairSpecStd == SpecStd /\ FairStd

(* ================================ App ================================== *)

\* parsed.questions of a response whose JSON has no questions member
Undefined == <<-1>>

\* A response text is a sequence of tokens: the fence with its json tag
\* (FENCE_JSON), the bare fence of three backquotes (FENCE), white space, a JSON
\* object with two questions, with an empty questions array, with no questions
\* member, the JSON null, and text that is no JSON.
Tokens == {"FENCE_JSON", "FENCE", " ", "{q:[1,2]}", "{q:[]}", "{}", "null", "x"}

JsonValues == {"{q:[1,2]}", "{q:[]}", "{}", "null"}

\* a grounding chunk is its web uri, or "none" when it has none
Chunks == {"a", "b", "none"}

\* what ai.models.generateContent can settle with: a rejection, or a response
\* with a text t and grounding chunks c
Rejection == [ok |-> FALSE, text |-> <<>>, chunks |-> <<>>]

Response(t, c) == [ok |-> TRUE, text |-> t, chunks |-> c]

\* only the second replace call: the json-tagged fences stay
StripBareFences(text) == SelectSeq(text, LAMBDA t : t # "FENCE")

\* the two replace calls: every json fence, then every bare fence, is removed
StripFences(text) ==
    SelectSeq(SelectSeq(text, LAMBDA t : t # "FENCE_JSON"), LAMBDA t : t # "FENCE")

RECURSIVE TrimStart(_)
TrimStart(text) ==
    IF text # <<>> /\ Head(text) = " " THEN TrimStart(Tail(text)) ELSE text

RECURSIVE TrimEnd(_)
TrimEnd(text) ==
    IF text # <<>> /\ text[Len(text)] = " "
    THEN TrimEnd(SubSeq(text, 1, Len(text) - 1)) ELSE text

\* text.trim()
Trim(text) == TrimEnd(TrimStart(text))

\* JSON.parse: one JSON value and nothing else, or a SyntaxError
JsonParse(text) ==
    IF Len(text) = 1 /\ text[1] \in JsonValues
    THEN [ok |-> TRUE, value |-> text[1]]
    ELSE [ok |-> FALSE, value |-> ""]

\* parsed.questions
QuestionsOf(value) ==
    IF value = "{q:[1,2]}" THEN <<1, 2>>
    ELSE IF value = "{q:[]}" THEN <<>>
    ELSE Undefined

\* the uris pushed for the chunks that have one
WebUris(chunks) == SelectSeq(chunks, LAMBDA c : c # "none")

\* Array.from(uris): no Set in between
KeepAll(uris) == uris

\* Array.from(new Set(uris)): each uri once, in order of first occurrence
RECURSIVE Unique(_)
Unique(uris) ==
    IF uris = <<>> THEN <<>>
    ELSE LET init == Unique(SubSeq(uris, 1, Len(uris) - 1))
             last == uris[Len(uris)]
         IN  IF \E k \in 1..Len(init) : init[k] = last THEN init ELSE Append(init, last)

Threw == [threw |-> TRUE, questions |-> <<>>, sources |-> <<>>]

\* the try block of generateTriviaQuestions
TryGenerate(r) ==
    IF ~r.ok THEN Threw
    ELSE IF r.text = <<>> THEN Threw
    ELSE LET parsed == JsonParse(Trim(StripFences(r.text)))
         IN  IF ~parsed.ok THEN Threw
             ELSE IF parsed.value = "null" THEN Threw
             ELSE [threw |-> FALSE, questions |-> QuestionsOf(parsed.value),
                   sources |-> Unique(WebUris(r.chunks))]

FallbackResult == [rejected |-> FALSE, questions |-> FallbackQuestions, sources |-> <<>>]

\* generateTriviaQuestions with a catch that throws on
generateRethrows(r) ==
    LET t == TryGenerate(r)
    IN  IF t.threw THEN [rejected |-> TRUE, questions |-> <<>>, sources |-> <<>>]
        ELSE [rejected |-> FALSE, questions |-> t.questions, sources |-> t.sources]

\* generateTriviaQuestions, settled with response r
generateTriviaQuestions(r) ==
    LET t == TryGenerate(r)
    IN  IF t.threw THEN FallbackResult
        ELSE [rejected |-> FALSE, questions |-> t.questions, sources |-> t.sources]

\* the members of HostPersonality
HostPersonality ==
    {"SARCASTIC_ROBOT", "ENTHUSIASTIC_HOST", "STRICT_PROFESSOR", "CHILL_SURFER"}

\* a voice table in which two personalities share a voice
TtsVoiceShared(p) ==
    CASE p = "SARCASTIC_ROBOT" -> "Kore"
      [] p = "ENTHUSIASTIC_HOST" -> "Fenrir"
      [] p = "STRICT_PROFESSOR" -> "Charon"
      [] p = "CHILL_SURFER" -> "Kore"
      [] OTHER -> "Puck"

\* playTextToSpeech: the voice selected for the personality
TtsVoice(p) ==
    CASE p = "SARCASTIC_ROBOT" -> "Kore"
      [] p = "ENTHUSIASTIC_HOST" -> "Fenrir"
      [] p = "STRICT_PROFESSOR" -> "Charon"
      [] p = "CHILL_SURFER" -> "Aoede"
      [] OTHER -> "Puck"

\* connectToLiveSession: the voice of the speechConfig, whatever the personality
LiveVoice(p) == "Zephyr"

\* a personality button of the setup screen
setPersonality(p) ==
    /\ mode = "SETUP"
    /\ ~loading
    /\ personality' = p
    /\ UNCHANGED <<mode, questions, loading, sources, gameScore, currentQuestionIndex,
                   pendingMode, response, result, voiceName>>
    /\ UNCHANGED notApp

\* the App as first rendered
InitApp ==
    /\ mode = "SETUP"
    /\ questions = <<>>
    /\ AppQuiet
    /\ LiveIdle
    /\ StdIdle

\* startGame from a setup screen that keeps its buttons while loading
startGameWhileLoading(m) ==
    /\ mode = "SETUP"
    /\ loading' = TRUE
    /\ sources' = <<>>
    /\ pendingMode' = m
    /\ response' = <<>>
    /\ result' = <<>>
    /\ UNCHANGED <<mode, questions, gameScore, currentQuestionIndex, personality,
                   voiceName>>
    /\ UNCHANGED notApp

\* startGame up to its await; the setup screen shows its buttons only in SETUP
\* with loading false
startGame(m) ==
    /\ mode = "SETUP"
    /\ ~loading
    /\ loading' = TRUE
    /\ sources' = <<>>
    /\ pendingMode' = m
    /\ UNCHANGED <<mode, questions, gameScore, currentQuestionIndex, response, result,
                   personality, voiceName>>
    /\ UNCHANGED notApp

\* a generation call awaits its response
Generating == pendingMode # "none" /\ result = <<>>

\* generateContent settles with r and generateTriviaQuestions runs to its end
GenerateSettles(r) ==
    /\ Generating
    /\ response' = <<r>>
    /\ result' = <<generateTriviaQuestions(r)>>
    /\ UNCHANGED <<mode, questions, loading, sources, gameScore, currentQuestionIndex,
                   pendingMode, personality, voiceName>>
    /\ UNCHANGED notApp

\* startGame's state update without "questions: questions"
StartGameKeepsQuestions ==
    /\ result # <<>>
    /\ IF result[1].rejected
       THEN UNCHANGED <<mode, questions, sources, gameScore, currentQuestionIndex>>
       ELSE /\ sources' = result[1].sources
            /\ mode' = pendingMode
            /\ questions' = questions
            /\ gameScore' = 0
            /\ currentQuestionIndex' = 0
    /\ loading' = FALSE
    /\ pendingMode' = "none"
    /\ response' = <<>>
    /\ result' = <<>>
    /\ UNCHANGED <<personality, voiceName>>
    /\ UNCHANGED notApp

\* the rest of startGame: the state update, or the catch (an alert), and the finally
StartGameResumes ==
    /\ result # <<>>
    /\ IF result[1].rejected
       THEN UNCHANGED <<mode, questions, sources, gameScore, currentQuestionIndex>>
       ELSE /\ sources' = result[1].sources
            /\ mode' = pendingMode
            /\ questions' = result[1].questions
            /\ gameScore' = 0
            /\ currentQuestionIndex' = 0
    /\ loading' = FALSE
    /\ pendingMode' = "none"
    /\ response' = <<>>
    /\ result' = <<>>
    /\ UNCHANGED <<personality, voiceName>>
    /\ UNCHANGED notApp

\* "EXIT GAME", or the game component's onRestart / onEndGame
ExitToSetup ==
    /\ mode # "SETUP"
    /\ resetGame
    /\ voiceName' = "none"
    /\ UNCHANGED <<questions, loading, sources, gameScore, currentQuestionIndex,
                   pendingMode, response, result, personality>>
    /\ UNCHANGED notApp

\* the mounted game asks the service for speech: StandardGame speaks its intro
\* (playTextToSpeech), LiveGame's init connects (connectToLiveSession); both pass
\* gameState.personality
ServiceCall ==
    /\ mode \in {"PLAY_STANDARD", "PLAY_LIVE"}
    /\ voiceName = "none"
    /\ voiceName' = IF mode = "PLAY_STANDARD" THEN TtsVoice(personality)
                                             ELSE LiveVoice(personality)
    /\ UNCHANGED <<mode, questions, loading, sources, gameScore, currentQuestionIndex,
                   pendingMode, response, result, personality>>
    /\ UNCHANGED notApp

NextApp ==
    \/ \E m \in {"PLAY_LIVE", "PLAY_STANDARD"} : startGame(m)
    \/ GenerateSettles(Rejection)
    \/ /\ Generating
       /\ \E k \in 0..MaxText, j \in 0..MaxChunks :
             \E t \in [1..k -> Tokens], c \in [1..j -> Chunks] :
                GenerateSettles(Response(t, c))
    \/ StartGameResumes
    \/ ExitToSetup
    \/ \E p \in HostPersonality : setPersonality(p)
    \/ ServiceCall

SpecApp == InitApp /\ [][NextApp]_vars

(* =========================== properties: App =========================== *)

\* the cases of C7: the call fails, returns no text, or text that is no JSON
GenerationFails(r) ==
    \/ ~r.ok
    \/ r.text = <<>>
    \/ ~JsonParse(Trim(StripFences(r.text))).ok

\* C7: generateTriviaQuestions never rejects, and when the call fails, returns no
\* text or returns text that is no JSON it returns the fallback question with no
\* sources; startGame then enters the requested mode with the returned questions.
C7_FallbackNeverRejects ==
    [][/\ result' # <<>> =>
              /\ ~result'[1].rejected
              /\ GenerationFails(response'[1]) => result'[1] = FallbackResult
       /\ (result # <<>> /\ result' = <<>>) =>
              /\ mode' = pendingMode
              /\ questions' = result[1].questions
              /\ sources' = result[1].sources
              /\ loading' = FALSE]_vars

\* the generation call returned text that is no JSON, and the fallback came back
C7_Witness ==
    /\ result # <<>>
    /\ response[1].ok
    /\ response[1].text # <<>>
    /\ ~JsonParse(Trim(StripFences(response[1].text))).ok
    /\ result[1] = FallbackResult
    /\ pendingMode = "PLAY_STANDARD"

\* C11: whenever StandardGame is rendered (App renders it in PLAY_STANDARD, with
\* gameState.questions and its own currentQIdx) the index names a question of the
\* list: the list is an array and 0 <= currentQIdx < questions.length.
C11_IndexInRange ==
    mode = "PLAY_STANDARD" =>
        /\ questions # Undefined
        /\ 0 <= currentQIdx
        /\ currentQIdx < Len(questions)

\* C12: leaving a game (resetGame) gives mode SETUP; while the next generation
\* call runs no sources are held; and the step that starts a game sets score 0,
\* currentQuestionIndex 0 and the questions and sources the new call returned.
C12_RestartStartsFresh ==
    [][/\ (mode # "SETUP" /\ mode' # mode) => mode' = "SETUP"
       /\ loading' => (sources' = <<>> /\ mode' = "SETUP")
       /\ (mode = "SETUP" /\ mode' # "SETUP") =>
              /\ result # <<>>
              /\ mode' = pendingMode
              /\ gameScore' = 0
              /\ currentQuestionIndex' = 0
              /\ questions' = result[1].questions
              /\ sources' = result[1].sources]_vars

\* a game was played on the fallback question and left; the call of the next game
\* has returned other questions, which startGame is about to install
C12_Witness ==
    /\ mode = "SETUP"
    /\ loading
    /\ questions = FallbackQuestions
    /\ result # <<>>
    /\ result[1].questions = <<1, 2>>
    /\ result[1].sources # <<>>

\* text is the JSON value v between a json fence and a closing fence, with any
\* white space (the line breaks) around v
FencedOf(text, v) ==
    /\ Len(text) >= 3
    /\ text[1] = "FENCE_JSON"
    /\ text[Len(text)] = "FENCE"
    /\ \E k \in 2..(Len(text) - 1) :
          /\ text[k] = v
          /\ \A j \in 2..(Len(text) - 1) : j # k => text[j] = " "

\* C13: a response whose text is an object with a questions array, wrapped in the
\* json fences, gives the questions the same text gives without the fences, and
\* not the fallback.
C13_FencedParsesAlike ==
    \A v \in {"{q:[1,2]}", "{q:[]}"} :
        (result # <<>> /\ FencedOf(response[1].text, v)) =>
            /\ result[1].questions =
                   generateTriviaQuestions(Response(<<v>>, response[1].chunks)).questions
            /\ result[1].questions = QuestionsOf(v)
            /\ result[1] # FallbackResult

\* a fenced response with two questions has been parsed
C13_Witness ==
    /\ result # <<>>
    /\ response[1].text = <<"FENCE_JSON", "{q:[1,2]}", "FENCE">>
    /\ result[1].questions = <<1, 2>>

\* the index of the first chunk whose web uri is u
FirstChunk(chunks, u) ==
    CHOOSE k \in 1..Len(chunks) : chunks[k] = u /\ \A m \in 1..(k - 1) : chunks[m] # u

\* list s holds the web uris of the chunks, each once, by first occurrence
DistinctUrisOf(s, chunks) ==
    /\ \A i \in 1..Len(s), j \in 1..Len(s) : s[i] = s[j] => i = j
    /\ {s[i] : i \in 1..Len(s)} = {chunks[k] : k \in 1..Len(chunks)} \ {"none"}
    /\ \A i \in 1..Len(s), j \in 1..Len(s) :
          i < j => FirstChunk(chunks, s[i]) < FirstChunk(chunks, s[j])

\* C14 (as the claim states it): the sources returned for a response are the
\* distinct web uris of its grounding chunks, each once, by first occurrence.
C14_SourcesAreChunkUris ==
    (result # <<>> /\ response[1].ok) =>
        DistinctUrisOf(result[1].sources, response[1].chunks)

\* C14 (amended): when generateTriviaQuestions returns the parsed questions the
\* sources are the distinct web uris of the grounding chunks, each once, by first
\* occurrence; when it returns the fallback the sources are empty.
C14_SourcesUnlessFallback ==
    (result # <<>> /\ response[1].ok) =>
        IF result[1] = FallbackResult
        THEN result[1].sources = <<>>
        ELSE DistinctUrisOf(result[1].sources, response[1].chunks)

\* two chunks with the same uri came with parsed questions: one source
C14_Witness ==
    /\ result # <<>>
    /\ response[1].chunks = <<"a", "a">>
    /\ result[1].questions = <<1, 2>>
    /\ result[1].sources = <<"a">>

\* the voice the service uses for personality p in the game that is on
VoiceOfMode(p) == IF mode = "PLAY_STANDARD" THEN TtsVoice(p) ELSE LiveVoice(p)

\* C15 (as the claim states it): in the standard game and in the live game alike
\* the voice asked for belongs to the game's personality alone: no other
\* personality is given the same voice.
C15_VoicePerPersonality ==
    voiceName # "none" =>
        /\ voiceName = VoiceOfMode(personality)
        /\ \A q \in HostPersonality \ {personality} : VoiceOfMode(q) # voiceName

\* C15 (amended): text-to-speech asks for the voice of the personality's own, and
\* no other personality has that voice; the live session asks for Zephyr whatever
\* the personality.
C15_TtsVoicePerPersonality ==
    /\ (mode = "PLAY_STANDARD" /\ voiceName # "none") =>
           /\ voiceName = TtsVoice(personality)
           /\ \A q \in HostPersonality \ {personality} : TtsVoice(q) # voiceName
    /\ (mode = "PLAY_LIVE" /\ voiceName # "none") =>
           \A q \in HostPersonality : voiceName = "Zephyr" /\ LiveVoice(q) = voiceName

\* a standard game hosted by the chill surfer speaks with its voice
C15_Witness ==
    /\ mode = "PLAY_STANDARD"
    /\ personality = "CHILL_SURFER"
    /\ voiceName = "Aoede"

\* the modes the App is ever in, and loading only in SETUP, with the one call it
\* waits for
ModeMachine ==
    /\ mode \in {"SETUP", "PLAY_LIVE", "PLAY_STANDARD"}
    /\ loading => mode = "SETUP"
    /\ loading <=> pendingMode # "none"

\* C22: the mode is SETUP, PLAY_LIVE or PLAY_STANDARD, never LOADING or GAME_OVER;
\* loading is true only in SETUP; a generation call is started only when none is
\* in flight; and a play mode is entered only by the step that completes a
\* startGame call, which sets the questions that call returned.
C22_ModeMachine ==
    [][/\ ModeMachine
       /\ ModeMachine'
       /\ (loading' /\ pendingMode' # pendingMode) => (~loading /\ pendingMode = "none")
       /\ (loading' /\ ~loading) => (result' = <<>> /\ response' = <<>>)
       /\ (mode' \in {"PLAY_LIVE", "PLAY_STANDARD"} /\ mode' # mode) =>
              /\ mode = "SETUP"
              /\ loading
              /\ result # <<>>
              /\ mode' = pendingMode
              /\ questions' = result[1].questions
              /\ ~loading']_vars

\* a live game is on with the two questions and the two sources its startGame
\* call returned, and its session has been asked for
C22_Witness ==
    /\ mode = "PLAY_LIVE"
    /\ ~loading
    /\ questions = <<1, 2>>
    /\ sources = <<"a", "b">>
    /\ voiceName = "Zephyr"

(* ======================= properties: StandardGame ====================== *)

\* utterance k is in its request / decode / playback cycle
InCycle(k) == audioQueue[k].st \in {"request", "decode", "playing"}

\* C3: at most one utterance is in its request/decode/playback cycle, and an
\* utterance has left the queue only if the one before it has resolved.
C3_OneUtteranceAtATime ==
    /\ \A j \in 1..Len(audioQueue), k \in 1..Len(audioQueue) :
          (InCycle(j) /\ InCycle(k)) => j = k
    /\ \A k \in 2..Len(audioQueue) :
          audioQueue[k].st # "queued" => audioQueue[k - 1].st = "done"

\* one utterance plays while two more wait their turn behind it
C3_Witness ==
    /\ Len(audioQueue) >= 3
    /\ audioQueue[1].st = "playing"
    /\ audioQueue[2].st = "queued"
    /\ audioQueue[3].st = "queued"

\* C4: the promise of every utterance enqueued by speak eventually resolves.
C4_EveryUtteranceResolves ==
    \A k \in 1..MaxUtt :
        (Len(audioQueue) >= k) ~> (Len(audioQueue) >= k /\ audioQueue[k].st = "done")

\* C19: the utterances are enqueued in game order: the intro is the first; the
\* answer of a question is enqueued after that question's announcement; no
\* question is announced twice; and an utterance of a question comes after none
\* of a later question.
C19_GameOrder ==
    \A k \in 1..Len(audioQueue) :
        /\ audioQueue[k].kind = "intro" <=> k = 1
        /\ audioQueue[k].kind = "answer" =>
               \E j \in 1..(k - 1) :
                   audioQueue[j].kind = "question" /\ audioQueue[j].arg = audioQueue[k].arg
        /\ \A j \in 1..(k - 1) :
               /\ (audioQueue[j].kind = "question" /\ audioQueue[k].kind = "question")
                      => audioQueue[j].arg # audioQueue[k].arg
               /\ (audioQueue[j].kind \in {"question", "answer"} /\
                   audioQueue[k].kind \in {"question", "answer"})
                      => audioQueue[j].arg <= audioQueue[k].arg

\* C20: the score the game-over utterance announces is the number of "I Got It
\* Right" presses of the game (score counts them), the press that ends the game
\* included.
C20_GameOverScore ==
    \A k \in 1..Len(audioQueue) :
        audioQueue[k].kind = "gameover" => audioQueue[k].arg = score

\* C21: once the audio context is closed no step issues a text-to-speech request
\* and none starts a playback: no utterance enters its request or its playback.
C21_NothingOnClosedContext ==
    [][audioCtx = "closed" =>
          \A k \in 1..Len(audioQueue) :
              audioQueue'[k].st \in {"request", "playing"} =>
                  audioQueue'[k].st = audioQueue[k].st]_vars

(* ======================= properties: LiveGame ========================== *)

\* messages i and j were received and started with no interruption step between
SameEpoch(i, j) ==
    /\ msgs[i].rEpoch = msgs[j].rEpoch
    /\ msgs[i].sEpoch = msgs[j].sEpoch
    /\ msgs[i].rEpoch = msgs[i].sEpoch

\* C1: of two segments received in order with no interruption between them, the
\* later received starts no earlier than the earlier one's start plus its duration.
C1_StartAfterPrevious ==
    \A i \in Started, j \in Started :
        (i < j /\ SameEpoch(i, j)) => msgs[j].start >= msgs[i].start + msgs[i].dur

\* a message with serverContent.interrupted has been handled to its end in this step
HandledInterrupted ==
    \/ /\ Len(msgs') = Len(msgs) + 1
       /\ msgs'[Len(msgs')].intr
       /\ msgs'[Len(msgs')].dur = 0
    \/ \E i \in 1..Len(msgs) :
          msgs[i].intr /\ msgs[i].st = "decoding" /\ msgs'[i].st # "decoding"

\* C2: right after the interruption step of onMessage every source that was in the
\* set (the handler's own included) is stopped, the set is empty, the cursor is 0
\* and isBotSpeaking is false.
C2_InterruptionClears ==
    [][HandledInterrupted =>
          /\ \A i \in 1..Len(msgs') :
                (i \in audioSourcesRef \/
                    (i <= Len(msgs) /\ msgs[i].st = "decoding" /\ msgs'[i].st # "decoding"))
                    => msgs'[i].st = "stopped"
          /\ audioSourcesRef' = {}
          /\ nextStartTimeRef' = 0
          /\ isBotSpeaking' = FALSE]_vars

\* an interruption step has just stopped a source that was playing
C2_Witness ==
    /\ epoch > 0
    /\ \E i \in 1..Len(msgs) : msgs[i].st = "stopped"
    /\ audioSourcesRef = {}
    /\ nextStartTimeRef = 0
    /\ ~isBotSpeaking

\* C5: a frame delivered to onaudioprocess is sent exactly when the microphone is
\* not muted at that moment.
C5_SentIffUnmuted ==
    \A k \in 1..Len(frames) : frames[k].sent = frames[k].mic

\* init has no step left to take
InitSettled == micRequest # "pending" /\ sessionPromise # "pending"

\* C6: once the component is torn down and init has run to its end, the microphone
\* tracks are stopped, the nodes disconnected, both contexts and the session closed.
C6_TornDownReleasesAll ==
    (~isMounted /\ InitSettled) =>
        /\ streamRef # "live"
        /\ processorRef # "connected"
        /\ sourceRef # "connected"
        /\ inputCtx = "closed"
        /\ outputCtx = "closed"
        /\ session # "open"

\* C8 (as the claim states it): an error and a close of the session, on a mounted
\* component, both show "Connection interrupted." and both end the game.
C8_ErrorAndCloseAlike ==
    [][((OnError \/ OnClose) /\ isMounted) =>
          (error' = ConnectionInterrupted /\ mode' = "SETUP")]_vars

\* C8 (amended): on a mounted component the error event shows "Connection
\* interrupted." and leaves the game running; the close event ends the game
\* (mode SETUP, component unmounted) and sets no message.
C8_ErrorShowsCloseEnds ==
    [][/\ (OnError /\ isMounted) =>
              (error' = ConnectionInterrupted /\ mode' = "PLAY_LIVE" /\ isMounted')
       /\ (OnClose /\ isMounted) =>
              (mode' = "SETUP" /\ ~isMounted' /\ error' = error)]_vars

\* the session reported an error and later a close
C8_Witness ==
    /\ error = ConnectionInterrupted
    /\ session = "closedByPeer"
    /\ mode = "SETUP"

\* C9: a segment is started at max(cursor, clock) as of the moment it is started,
\* so never at a time before the clock's current time.
C9_StartNotInPast ==
    \A i \in Started : msgs[i].start >= msgs[i].at

\* C10: of two audio messages, the one received first gets a start time no later
\* than the other's, whatever the order of their decode completions.
C10_ArrivalOrder ==
    \A i \in Started, j \in Started :
        (i < j /\ SameEpoch(i, j)) => msgs[i].start <= msgs[j].start

\* C16: a segment is started only in the interruption epoch it was received in (a
\* segment whose decode was in flight when an interruption was handled is not
\* started afterwards), and while no message has been received since the last
\* interruption the cursor is 0.
C16_NoStartAcrossInterruption ==
    /\ \A i \in Started : msgs[i].sEpoch = msgs[i].rEpoch
    /\ (epoch > 0 /\ \A i \in 1..Len(msgs) : msgs[i].rEpoch < epoch) =>
           nextStartTimeRef = 0

\* C17: whenever the set of sources is not empty, isBotSpeaking is true; stated
\* for the sessions that have handled no interruption, where no segment is
\* started across one (C16).
C17_SpeakingWhileSources ==
    (epoch = 0 /\ audioSourcesRef # {}) => isBotSpeaking

\* C18: once the component is torn down, no step starts a segment on the output
\* context and no step sends a microphone frame.
C18_NothingAfterTeardown ==
    [][~isMounted =>
          /\ Started' \subseteq Started
          /\ \A k \in 1..Len(frames') : k > Len(frames) => ~frames'[k].sent]_vars

====
